---------------------------- MODULE Spec2Model ----------------------------
(***************************************************************************)
(* Gym wrappers of maniskill2_learn/env/wrappers.py as a state machine.    *)
(*                                                                         *)
(* Four wrapper stacks are modelled, one specification each:               *)
(*   Spec     ExtendedEnv around an arbitrary gym environment              *)
(*   SpecObs  ExtendedEnv around ManiSkill2_ObsWrapper around a simulator  *)
(*   SpecBuf  BufferAugmentedEnv around an arbitrary gym environment       *)
(*   SpecRw   RenderInfoWrapper around an arbitrary gym environment         *)
(*                                                                         *)
(* Arrays are abstracted to what the wrappers decide on: their dtype, and  *)
(* for per-point arrays the sequence of point identities (rows).           *)
(***************************************************************************)
EXTENDS Integers, Sequences, FiniteSets, TLC

VARIABLES
    ext,     \* ExtendedEnv: constructor outcome and the fields it sets
    obsw,    \* ManiSkill2_ObsWrapper: its fields and the simulator's features
    alive,   \* FALSE once the process has been terminated by exit(0)
    envLog,  \* calls received by the wrapped env during the last wrapper call
    out,     \* what the last wrapper call returned (or how it failed)
    rnd,     \* frame of ExtendedEnv.step_random_actions (locals of the loop)
    buf,     \* BufferAugmentedEnv: the shared buffers
    bpc,     \* BufferAugmentedEnv: position of the worker inside a call
    rw       \* RenderInfoWrapper: _info_for_render and the last calls

vars == <<ext, obsw, alive, envLog, out, rnd, buf, bpc, rw>>

(***************************************************************************)
(* Bounds of the model.                                                    *)
(***************************************************************************)
MaxScale == 2       \* reward_scale arguments range over -1 .. MaxScale
MaxReward == 2      \* environment rewards range over -MaxReward .. MaxReward
MaxNum == 3         \* step_random_actions(num), num in 0 .. MaxNum
MaxPts == 2         \* points in a simulator point cloud
MaxGoalPts == 2     \* n_goal_points ranges over -1 .. MaxGoalPts
MaxCalls == 3       \* calls made through a BufferAugmentedEnv
MaxRwCalls == 4     \* reset and step calls made through a RenderInfoWrapper

(***************************************************************************)
(* Values.                                                                 *)
(***************************************************************************)
Abs(x) == IF x < 0 THEN -x ELSE x

EmptyMap == [k \in {} |-> 0]

\* An observation: the env call that produced it (id), the dtype of each
\* field, the rows of each per-point array, and the side of its images (0
\* without images).
NoObs == [id |-> 0, dt |-> EmptyMap, pts |-> EmptyMap, hw |-> 0]

NoInfo == [is_dict |-> FALSE, trunc |-> "absent", dt |-> "none"]

NoAction == [kind |-> "none", val |-> 0, shape |-> <<>>, data |-> <<>>]

\* Python numbers.  A float carries its value in halves (val = 2 * value),
\* an int carries its value.
PyInt(n) == [kind |-> "int", val |-> n, shape |-> <<>>, data |-> <<>>]

PyFloat(h) == [kind |-> "float", val |-> h, shape |-> <<>>, data |-> <<>>]

\* A numpy array of floats: its shape and its elements (in halves) in
\* row-major order.
NdArray(shape, data) == [kind |-> "ndarray", val |-> 0, shape |-> shape, data |-> data]

RECURSIVE Prod(_)
Prod(s) == IF s = <<>> THEN 1 ELSE Head(s) * Prod(Tail(s))

\* ndarray.size
Size(a) == Prod(a.shape)

\* ndarray.reshape(-1): the elements in row-major order
Reshape1D(a) == a.data

\* int(x) of a value given in halves: truncation toward zero
IntOfHalves(h) == IF h >= 0 THEN h \div 2 ELSE -((-h) \div 2)

\* int(x) of a Python number
PyIntOf(x) == IF x.kind = "int" THEN x.val ELSE IntOfHalves(x.val)

is_num(x) == x.kind \in {"int", "float"}

\* np.float32(x) of an integer-valued x: round to a 24-bit significand,
\* ties to even.
RECURSIVE Ulp32(_, _)
Ulp32(m, u) == IF m < 16777216 * u THEN u ELSE Ulp32(m, 2 * u)

RoundHalfEven(m, u) ==
    LET q == m \div u
        r == m % u
    IN  IF 2 * r < u THEN q * u
        ELSE IF 2 * r > u THEN (q + 1) * u
        ELSE IF q % 2 = 0 THEN q * u ELSE (q + 1) * u

F32(x) ==
    LET m == Abs(x)
        v == RoundHalfEven(m, Ulp32(m, 1))
    IN  IF x < 0 THEN -v ELSE v

\* GDict.f64_to_f32 on one array: float64 becomes float32, anything else is
\* left as it is.
f64_to_f32_dtype(d) == IF d = "f64" THEN "f32" ELSE d

\* GDict.f64_to_f32 on an observation
f64_to_f32(obs) == [obs EXCEPT !.dt = [k \in DOMAIN obs.dt |-> f64_to_f32_dtype(obs.dt[k])]]

f64_to_f32_info(info) == [info EXCEPT !.dt = f64_to_f32_dtype(info.dt)]

(***************************************************************************)
(* ExtendedEnv                                                             *)
(***************************************************************************)
NoExt ==
    [state |-> "none", arg_scale |-> 0, arg_cost |-> FALSE,
     is_discrete |-> FALSE, is_cost |-> 0, reward_scale |-> 0]

\* Faulty variant: the assertion accepts a zero reward_scale
ExtendedEnv_init_weak(env_discrete, reward_scale, use_cost) ==
    IF ~(reward_scale >= 0)
    THEN [NoExt EXCEPT !.state = "failed", !.arg_scale = reward_scale, !.arg_cost = use_cost]
    ELSE LET is_cost == IF use_cost THEN -1 ELSE 1
         IN  [state |-> "built", arg_scale |-> reward_scale, arg_cost |-> use_cost,
              is_discrete |-> env_discrete, is_cost |-> is_cost,
              reward_scale |-> reward_scale * is_cost]

\* ExtendedEnv.__init__: the assertion raises before any field is set
ExtendedEnv_init(env_discrete, reward_scale, use_cost) ==
    IF ~(reward_scale > 0)
    THEN [NoExt EXCEPT !.state = "failed", !.arg_scale = reward_scale, !.arg_cost = use_cost]
    ELSE LET is_cost == IF use_cost THEN -1 ELSE 1
         IN  [state |-> "built", arg_scale |-> reward_scale, arg_cost |-> use_cost,
              is_discrete |-> env_discrete, is_cost |-> is_cost,
              reward_scale |-> reward_scale * is_cost]

\* Faulty variant: the assertion accepts any non-empty array
process_action_first(self, action) ==
    IF self.is_discrete
    THEN IF is_num(action)
         THEN [err |-> "none", action |-> PyInt(PyIntOf(action))]
         ELSE IF Size(action) >= 1
              THEN [err |-> "none", action |-> PyInt(IntOfHalves(Reshape1D(action)[1]))]
              ELSE [err |-> "AssertionError", action |-> action]
    ELSE [err |-> "none", action |-> action]

\* ExtendedEnv._process_action
process_action(self, action) ==
    IF self.is_discrete
    THEN IF is_num(action)
         THEN [err |-> "none", action |-> PyInt(PyIntOf(action))]
         ELSE IF Size(action) = 1
              THEN [err |-> "none", action |-> PyInt(IntOfHalves(Reshape1D(action)[1]))]
              ELSE [err |-> "AssertionError", action |-> action]
    ELSE [err |-> "none", action |-> action]

NoRet == [obs |-> NoObs, reward |-> 0, done |-> FALSE, info |-> NoInfo]

\* The record kept of a wrapper call: the call, its argument, how it ended,
\* what it returned, what the wrapped env had returned to it, and (point
\* cloud mode) the rows of 'xyz' after masking and downsampling.
Outcome(call, arg, err, ret, env_ret) ==
    [call |-> call, arg |-> arg, err |-> err, ret |-> ret, env_ret |-> env_ret,
     rows_down |-> 0]

NoOut == Outcome("none", NoAction, "none", NoRet, NoRet)

\* ExtendedEnv.reset, given what self.env.reset returned
ExtendedEnv_reset(self, env_obs) == [NoRet EXCEPT !.obs = f64_to_f32(env_obs)]

\* info["TimeLimit.truncated"] = False when info is a dict without the key
AddTruncated(info) ==
    IF info.is_dict /\ info.trunc = "absent" THEN [info EXCEPT !.trunc = "False"] ELSE info

\* Faulty variant: step without the f64_to_f32 conversion
ExtendedEnv_step_raw(self, r) ==
    [obs |-> r.obs,
     reward |-> F32(r.reward * self.reward_scale),
     done |-> r.done,
     info |-> AddTruncated(r.info)]

\* Faulty variant: step applies the sign but not the scale
ExtendedEnv_step_unscaled(self, r) ==
    [obs |-> f64_to_f32(r.obs),
     reward |-> F32(r.reward * self.is_cost),
     done |-> r.done,
     info |-> f64_to_f32_info(AddTruncated(r.info))]

\* ExtendedEnv.step after _process_action, given what self.env.step returned
ExtendedEnv_step(self, r) ==
    [obs |-> f64_to_f32(r.obs),
     reward |-> F32(r.reward * self.reward_scale),
     done |-> r.done,
     info |-> f64_to_f32_info(AddTruncated(r.info))]


(***************************************************************************)
(* The wrapped environment of Spec: any gym environment.  What it returns  *)
(* is an input of the model.                                               *)
(***************************************************************************)
LogEntry(op, action) == [op |-> op, action |-> action]

\* Arguments of step(action): plain numbers and arrays of size 0, 1 and 2
Actions ==
    { PyInt(2), PyFloat(-3),
      NdArray(<<>>, <<5>>), NdArray(<<1, 1>>, <<-3>>),
      NdArray(<<2>>, <<2, 4>>), NdArray(<<0>>, <<>>) }

\* dtypes of the fields of the observation of an arbitrary environment
EnvDtProfiles ==
    { [a |-> "f64", b |-> "i64"], [a |-> "f32", b |-> "f64"], [a |-> "f16", b |-> "f64"] }

EnvObsOf(id, p) == [id |-> id, dt |-> p, pts |-> EmptyMap, hw |-> 0]

EnvObs(id) == { EnvObsOf(id, p) : p \in EnvDtProfiles }

DictInfo(trunc, dt) == [is_dict |-> TRUE, trunc |-> trunc, dt |-> dt]

\* (done, info) pairs an environment returns
DoneInfos ==
    { <<FALSE, NoInfo>>, <<FALSE, DictInfo("absent", "f64")>>,
      <<TRUE, DictInfo("True", "f32")>>, <<TRUE, DictInfo("absent", "f64")>> }

EnvRet(o, r, di) == [obs |-> o, reward |-> r, done |-> di[1], info |-> di[2]]

\* What env.step returns: every dtype profile and every (done, info) pair
\* with every reward
EnvStepReturns(id) ==
    { EnvRet(o, r, <<FALSE, DictInfo("absent", "f64")>>) :
        o \in EnvObs(id), r \in -MaxReward .. MaxReward }
    \cup
    { EnvRet(EnvObsOf(id, [a |-> "f64", b |-> "i64"]), r, di) :
        r \in -MaxReward .. MaxReward, di \in DoneInfos }

NoRnd == [pc |-> "idle", num |-> 0, i |-> 0, obs |-> NoObs, ret |-> <<>>]

\* ManiSkill2_ObsWrapper before it exists
NoObsw ==
    [obs_mode |-> "none", obs_frame |-> "base", img_size |-> 0, n_points |-> 1,
     n_goal_points |-> -1, ignore_dones |-> FALSE, preprocessed |-> FALSE,
     key |-> "xyz", seg |-> FALSE, goal |-> "none", fdt |-> "f32",
     rgbdt |-> "u8", hw |-> 0]

\* An info dict: the step that created it (0: the literal {} of reset), the
\* episode it belongs to, and its 'reward' entry and whether it has one
InfoDict(id, ep, has_reward, reward) ==
    [id |-> id, ep |-> ep, has_reward |-> has_reward, reward |-> reward]

EmptyDict == InfoDict(0, 0, FALSE, 0)

\* No render call has returned since the last reset or step
NoRender ==
    [mode |-> "none", err |-> "none", img |-> <<>>, overlay |-> FALSE,
     info |-> EmptyDict]

\* RenderInfoWrapper before any call: _info_for_render is not set
NoRw ==
    [has_info |-> FALSE, info_for_render |-> EmptyDict, calls |-> 0, ep |-> 0,
     last |-> "none", ret_reward |-> 0, ret_info |-> EmptyDict, rendered |-> NoRender]

\* BufferAugmentedEnv before it exists
NoBuf ==
    [n |-> 0, env_vis |-> "missing", reset_buffer |-> 0, step_buffer |-> <<>>,
     vis_img_buffer |-> 0, slots |-> <<>>, hist |-> <<>>, before |-> <<>>,
     pending |-> <<>>, rendered |-> "none", err |-> "none", seen |-> <<>>]

Init ==
    /\ ext = NoExt
    /\ obsw = NoObsw
    /\ alive = TRUE
    /\ envLog = <<>>
    /\ out = NoOut
    /\ rnd = NoRnd
    /\ buf = NoBuf
    /\ bpc = "idle"
    /\ rw = NoRw

\* ExtendedEnv(env, reward_scale, use_cost)
Construct(env_discrete, reward_scale, use_cost) ==
    /\ ext.state = "none"
    /\ ext' = ExtendedEnv_init(env_discrete, reward_scale, use_cost)
    /\ UNCHANGED <<rw, obsw, alive, envLog, out, rnd, buf, bpc>>

Idle == ext.state = "built" /\ alive /\ rnd.pc \in {"idle", "returned"}

\* ExtendedEnv.reset()
Reset ==
    /\ Idle
    /\ \E o \in EnvObs(1) :
         /\ envLog' = <<LogEntry("reset", NoAction)>>
         /\ out' = Outcome("reset", NoAction, "none",
                           ExtendedEnv_reset(ext, o), [NoRet EXCEPT !.obs = o])
    /\ rnd' = NoRnd
    /\ UNCHANGED <<rw, ext, obsw, alive, buf, bpc>>

\* ExtendedEnv.step(action)
Step(action) ==
    /\ Idle
    /\ LET pa == process_action(ext, action)
       IN  IF pa.err # "none"
           THEN /\ envLog' = <<>>
                /\ out' = Outcome("step", action, pa.err, NoRet, NoRet)
           ELSE \E r \in EnvStepReturns(1) :
                  /\ envLog' = <<LogEntry("step", pa.action)>>
                  /\ out' = Outcome("step", action, "none", ExtendedEnv_step(ext, r), r)
    /\ rnd' = NoRnd
    /\ UNCHANGED <<rw, ext, obsw, alive, buf, bpc>>

(***************************************************************************)
(* ExtendedEnv.step_random_actions(num), one loop iteration per step.      *)
(***************************************************************************)
\* self.action_space.sample()
Samples(self) ==
    IF self.is_discrete THEN { PyInt(0), PyInt(1) } ELSE { NdArray(<<2>>, <<1, -1>>) }

\* What the wrapped env returns inside the loop
LoopObs(id) == EnvObsOf(id, [a |-> "f64", b |-> "i64"])

LoopStepReturns(id) ==
    { [obs |-> LoopObs(id), reward |-> 1, done |-> d,
       info |-> [is_dict |-> TRUE, trunc |-> t, dt |-> "f64"]] :
      d \in BOOLEAN, t \in {"absent"} }

\* env_utils.true_done(dones, infos)
true_done(dones, infos) == dones /\ infos.trunc # "True"

\* The body of the loop after self.step: the transition, and the obs of the
\* next iteration (reset_obs is what self.reset() returns when it is called)
\* Faulty variant: the loop does not reset after a done step
LoopBodyNoReset(obs, action, r, reset_obs) ==
    [info_i |-> [obs |-> obs, next_obs |-> r.obs, actions |-> action,
                 rewards |-> r.reward, dones |-> true_done(r.done, r.info),
                 infos |-> r.info, episode_dones |-> r.done],
     did_reset |-> FALSE,
     obs |-> r.obs]

LoopBody(obs, action, r, reset_obs) ==
    [info_i |-> [obs |-> obs, next_obs |-> r.obs, actions |-> action,
                 rewards |-> r.reward, dones |-> true_done(r.done, r.info),
                 infos |-> r.info, episode_dones |-> r.done],
     did_reset |-> r.done,
     obs |-> IF r.done THEN reset_obs ELSE r.obs]

RandBegin(num) ==
    /\ Idle
    /\ LET o == LoopObs(1)
       IN  /\ envLog' = <<LogEntry("reset", NoAction)>>
           /\ rnd' = [pc |-> "loop", num |-> num, i |-> 0,
                      obs |-> ExtendedEnv_reset(ext, o).obs, ret |-> <<>>]
    /\ out' = Outcome("step_random_actions", PyInt(num), "running", NoRet, NoRet)
    /\ UNCHANGED <<rw, ext, obsw, alive, buf, bpc>>

RandIter ==
    /\ rnd.pc = "loop"
    /\ rnd.i < rnd.num
    /\ \E action \in Samples(ext) :
       \E er \in LoopStepReturns(Len(envLog) + 1) :
         LET pa == process_action(ext, action)
             r == ExtendedEnv_step(ext, er)
             ro == ExtendedEnv_reset(ext, LoopObs(Len(envLog) + 2)).obs
             b == LoopBody(rnd.obs, action, r, ro)
             log1 == Append(envLog, LogEntry("step", pa.action))
         IN  /\ pa.err = "none"
             /\ envLog' = IF b.did_reset
                          THEN Append(log1, LogEntry("reset", NoAction))
                          ELSE log1
             /\ rnd' = [rnd EXCEPT !.i = @ + 1, !.obs = b.obs,
                                   !.ret = Append(@, b.info_i)]
    /\ UNCHANGED <<rw, ext, obsw, alive, out, buf, bpc>>

RandReturn ==
    /\ rnd.pc = "loop"
    /\ rnd.i = rnd.num
    /\ rnd' = [rnd EXCEPT !.pc = "returned"]
    /\ out' = [out EXCEPT !.err = IF rnd.ret = <<>> THEN "AttributeError" ELSE "none"]
    /\ UNCHANGED <<rw, ext, obsw, alive, envLog, buf, bpc>>

Next ==
    \/ \E d \in BOOLEAN, s \in -1 .. MaxScale, c \in BOOLEAN : Construct(d, s, c)
    \/ Reset
    \/ \E a \in Actions : Step(a)
    \/ \E n \in 0 .. MaxNum : RandBegin(n)
    \/ RandIter
    \/ RandReturn

Spec == Init /\ [][Next]_vars

(***************************************************************************)
(* Properties of ExtendedEnv, under Spec.                                  *)
(***************************************************************************)

\* C1: constructing ExtendedEnv with reward_scale <= 0 fails the assertion
\* for either value of use_cost and produces no wrapper (no field is set and
\* nothing can be called on it); with reward_scale > 0 it succeeds.
C1_RewardScaleValidated ==
    ext.state # "none" =>
        /\ (ext.state = "built") <=> (ext.arg_scale > 0)
        /\ (ext.state = "failed") <=> (ext.arg_scale <= 0)
        /\ ext.state = "failed" =>
              /\ ext.is_cost = 0 /\ ext.reward_scale = 0
              /\ out = NoOut /\ envLog = <<>> /\ rnd = NoRnd

C1_Witness ==
    ext.state = "failed" /\ ext.arg_scale = 0 /\ ext.arg_cost = TRUE

\* The value of a step argument in halves: a number, or the only element of
\* an array of size 1
ArgHalves(a) ==
    IF a.kind = "int" THEN 2 * a.val
    ELSE IF a.kind = "float" THEN a.val
    ELSE a.data[1]

\* n is h/2 truncated toward zero
IsTruncation(n, h) ==
    /\ 2 * Abs(n) <= Abs(h)
    /\ Abs(h) < 2 * Abs(n) + 2
    /\ (n > 0 => h > 0) /\ (n < 0 => h < 0)

\* C2: with a discrete action space, step hands the wrapped env an integer
\* index for a plain number or an array of size 1 (of any shape); an array of
\* another size fails the assertion and the wrapped env is not stepped.  With
\* another action space the action is forwarded unchanged.
C2_DiscreteActionCoerced ==
    out.call = "step" =>
        IF ext.is_discrete
        THEN IF is_num(out.arg) \/ Len(out.arg.data) = 1
             THEN /\ out.err = "none"
                  /\ Len(envLog) = 1
                  /\ envLog[1].op = "step"
                  /\ envLog[1].action.kind = "int"
                  /\ IsTruncation(envLog[1].action.val, ArgHalves(out.arg))
             ELSE /\ out.err = "AssertionError"
                  /\ envLog = <<>>
        ELSE /\ out.err = "none"
             /\ envLog = <<LogEntry("step", out.arg)>>

C2_Witness ==
    /\ out.call = "step"
    /\ ext.is_discrete
    /\ out.arg.kind = "ndarray"
    /\ out.arg.shape = <<1, 1>>
    /\ envLog = <<LogEntry("step", PyInt(-1))>>

\* C5: the reward step returns is the wrapped env's reward times the
\* reward_scale argument, negated exactly when use_cost was set; and the
\* wrapper's scale and sign never change once it is built.
C5_RewardScaled ==
    /\ [](out.call = "step" /\ out.err = "none" =>
            out.ret.reward = IF ext.arg_cost
                             THEN -(out.env_ret.reward * ext.arg_scale)
                             ELSE out.env_ret.reward * ext.arg_scale)
    /\ [][ext.state = "built" => ext' = ext]_vars

C5_Witness ==
    /\ out.call = "step"
    /\ ext.arg_cost
    /\ ext.arg_scale = 2
    /\ out.env_ret.reward = -1
    /\ out.ret.reward = 2

\* Position in the log of the i-th call of the given kind
NthCall(log, op, i) ==
    CHOOSE p \in 1 .. Len(log) :
        /\ log[p].op = op
        /\ Cardinality({q \in 1 .. p : log[q].op = op}) = i

CountCalls(log, op) == Cardinality({q \in 1 .. Len(log) : log[q].op = op})

\* C9: step_random_actions(num), num >= 1, makes num steps and returns num
\* transitions in step order; it resets once at the start and once right
\* after every done step; the obs of a transition is the next_obs of the one
\* before it, or the obs of the reset that followed it when that one was done.
C9_RandomActions ==
    (rnd.pc = "returned" /\ rnd.num >= 1) =>
        /\ out.err = "none"
        /\ Len(rnd.ret) = rnd.num
        /\ CountCalls(envLog, "step") = rnd.num
        /\ CountCalls(envLog, "reset") =
              1 + Cardinality({i \in 1 .. rnd.num : rnd.ret[i].episode_dones})
        /\ envLog[1].op = "reset"
        /\ rnd.ret[1].obs.id = 1
        /\ \A i \in 1 .. rnd.num :
              LET p == NthCall(envLog, "step", i)
              IN  /\ rnd.ret[i].next_obs.id = p
                  /\ rnd.ret[i].episode_dones <=>
                        (p < Len(envLog) /\ envLog[p + 1].op = "reset")
                  /\ i < rnd.num =>
                        IF rnd.ret[i].episode_dones
                        THEN rnd.ret[i + 1].obs.id = p + 1
                        ELSE rnd.ret[i + 1].obs = rnd.ret[i].next_obs

C9_Witness ==
    /\ rnd.pc = "returned"
    /\ rnd.num = 3
    /\ rnd.ret[1].episode_dones
    /\ ~rnd.ret[2].episode_dones
    /\ rnd.ret[2].obs.id = 3
    /\ rnd.ret[3].obs.id = 4

(***************************************************************************)
(* ManiSkill2_ObsWrapper                                                   *)
(*                                                                         *)
(* The simulator under the wrapper is described by what its observations   *)
(* look like: its obs_mode, whether its point cloud comes as 'xyz' or      *)
(* 'xyzw', whether it has 'robot_seg', which goal entry 'extra' holds,     *)
(* the dtype of its floating-point arrays and of its rgb images, the side  *)
(* of its images, and whether a PointCloudPreprocessObsWrapper is in it.   *)
(***************************************************************************)
Sim(obs_mode, key, seg, goal, fdt, rgbdt, hw, preprocessed) ==
    [obs_mode |-> obs_mode, key |-> key, seg |-> seg, goal |-> goal, fdt |-> fdt,
     rgbdt |-> rgbdt, hw |-> hw, preprocessed |-> preprocessed]

\* ManiSkill2_ObsWrapper.__init__ (obs_mode and the simulator's features are
\* read through __getattr__ from the wrapped env)
ManiSkill2_ObsWrapper_init(sim, img_size, n_points, n_goal_points, obs_frame, ignore_dones) ==
    [obs_mode |-> sim.obs_mode,
     obs_frame |-> obs_frame,
     img_size |-> IF sim.obs_mode = "rgbd" THEN img_size ELSE 0,
     n_points |-> IF sim.obs_mode = "pointcloud" THEN n_points ELSE 1,
     n_goal_points |-> IF sim.obs_mode = "pointcloud" THEN n_goal_points ELSE -1,
     ignore_dones |-> ignore_dones,
     preprocessed |-> sim.preprocessed,
     key |-> sim.key, seg |-> sim.seg, goal |-> sim.goal, fdt |-> sim.fdt,
     rgbdt |-> sim.rgbdt, hw |-> sim.hw]

\* numpy's result dtype of an operation on two floating-point arrays
Promote(a, b) == IF "f64" \in {a, b} THEN "f64" ELSE IF "f32" \in {a, b} THEN "f32" ELSE "f16"

\* arr[mask]
Take(arr, mask) ==
    LET F[i \in 0 .. Len(arr)] ==
            IF i = 0 THEN <<>>
            ELSE IF mask[i] THEN Append(F[i - 1], arr[i]) ELSE F[i - 1]
    IN  F[Len(arr)]

\* observation['pointcloud'] of the simulator: every array has one row per
\* point; w is the last column of 'xyzw' (1: inside the depth range)
SimPointcloud(self, w) ==
    [k \in {self.key, "rgb"} \cup (IF self.seg THEN {"robot_seg"} ELSE {}) |->
        [i \in 1 .. Len(w) |-> i]]

\* Faulty variant: any frame but 'ee' is taken as the base frame
SelectFrameAny(self) ==
    IF self.obs_frame = "ee" THEN "tcp_pose" ELSE "base_pose"

\* The frame selection: the pose whose inverse is to_origin, or none
SelectFrame(self) ==
    IF self.obs_frame \in {"base", "world"} THEN "base_pose"
    ELSE IF self.obs_frame = "ee" THEN "tcp_pose"
    ELSE "exit"

\* pointcloud.pop('xyzw') and the masking of every array by xyzw[:, -1] > 0.5
MaskPointcloud(pointcloud, w) ==
    IF "xyzw" \in DOMAIN pointcloud
    THEN LET mask == [i \in 1 .. Len(w) |-> w[i] = 1]
             rest == DOMAIN pointcloud \ {"xyzw"}
         IN  [k \in rest \cup {"xyz"} |->
                 Take(pointcloud[IF k = "xyz" THEN "xyzw" ELSE k], mask)]
    ELSE pointcloud

\* ret = {mode: pointcloud[mode] for mode in ['xyz', 'rgb', 'robot_seg'] ...}
SelectModes(pointcloud) ==
    [k \in DOMAIN pointcloud \cap {"xyz", "rgb", "robot_seg"} |-> pointcloud[k]]

\* pcd_uniform_downsample: the rows idx of every array, in place
pcd_uniform_downsample(ret, idx) ==
    [k \in DOMAIN ret |-> [j \in 1 .. Len(idx) |-> ret[k][idx[j]]]]

\* The index sequences a downsampling to at most num rows can draw from m
\* rows: k rows, repeating rows when k > m
DownsampleChoices(m, num) ==
    IF m = 0 THEN { <<>> }
    ELSE { [j \in 1 .. k |-> ((j - 1) % m) + 1] : k \in 0 .. num }

GoalPoints(n) == [j \in 1 .. n |-> 0]

\* Faulty variant: one goal point too few is appended
InjectGoalOneShort(self, ret) ==
    IF self.n_goal_points > 0
    THEN [ret EXCEPT !["xyz"] = @ \o GoalPoints(self.n_goal_points - 1),
                     !["rgb"] = @ \o GoalPoints(self.n_goal_points - 1)]
    ELSE ret

\* The goal point injection: n_goal_points rows appended to 'xyz' and 'rgb'
InjectGoal(self, ret) ==
    IF self.n_goal_points > 0
    THEN [ret EXCEPT !["xyz"] = @ \o GoalPoints(self.n_goal_points),
                     !["rgb"] = @ \o GoalPoints(self.n_goal_points)]
    ELSE ret

\* The outcome of observation(): how it ended, the observation, and the rows
\* of 'xyz' after masking and downsampling (before the goal injection)
ObsResult(err, obs, rows_down) == [err |-> err, obs |-> obs, rows_down |-> rows_down]

observation_state(self, id) ==
    ObsResult("none", [id |-> id, dt |-> [state |-> self.fdt], pts |-> EmptyMap, hw |-> 0], 0)

\* The "rgbd" branch
observation_rgbd(self, id) ==
    IF self.rgbdt # "u8"
    THEN ObsResult("AssertionError", NoObs, 0)
    ELSE LET resize == self.img_size # 0 /\ self.img_size # self.hw
         IN  ObsResult("none",
                       [id |-> id,
                        dt |-> [rgb |-> "u8", depth |-> "f16", state |-> self.fdt],
                        pts |-> EmptyMap,
                        hw |-> IF resize THEN self.img_size ELSE self.hw],
                       0)

\* dtypes of the arrays of the point cloud observation
PointcloudDtypes(self, keys) ==
    LET injected == self.n_goal_points > 0
        base == [k \in keys \cup {"frame_related_states", "to_frames", "state"} |->
                    IF k = "xyz" THEN (IF injected THEN Promote(self.fdt, "f64") ELSE self.fdt)
                    ELSE IF k = "rgb" THEN "f64"
                    ELSE IF k = "robot_seg" THEN "bool"
                    ELSE IF k = "to_frames" THEN "f32"
                    ELSE self.fdt]
    IN  IF self.goal = "goal_pose"
        THEN [k \in DOMAIN base \cup {"frame_goal_related_poses"} |->
                 IF k = "frame_goal_related_poses" THEN "f32" ELSE base[k]]
        ELSE base

\* The "pointcloud" branch; w is the simulator's point cloud, idx the rows
\* the downsampling draws
observation_pointcloud(self, id, w, idx) ==
    IF SelectFrame(self) = "exit"
    THEN ObsResult("exit", NoObs, 0)
    ELSE LET masked == SelectModes(MaskPointcloud(SimPointcloud(self, w), w))
             down == IF self.preprocessed THEN masked
                     ELSE pcd_uniform_downsample(masked, idx)
         IN  IF self.n_goal_points > 0 /\ self.goal = "none"
             THEN ObsResult("AssertionError", NoObs, Len(down["xyz"]))
             ELSE LET ret == InjectGoal(self, down)
                  IN  ObsResult("none",
                                [id |-> id,
                                 dt |-> PointcloudDtypes(self, DOMAIN ret),
                                 pts |-> ret,
                                 hw |-> 0],
                                Len(down["xyz"]))

\* ManiSkill2_ObsWrapper.observation
observation(self, id, w, idx) ==
    IF self.obs_mode = "state" THEN observation_state(self, id)
    ELSE IF self.obs_mode = "rgbd" THEN observation_rgbd(self, id)
    ELSE observation_pointcloud(self, id, w, idx)

\* The point clouds the simulator emits: MaxPts points with any w column for
\* 'xyzw', up to MaxPts points for 'xyz'
SimClouds(self) ==
    IF self.obs_mode # "pointcloud" THEN { <<>> }
    ELSE IF self.key = "xyzw" THEN [1 .. MaxPts -> {0, 1}]
    ELSE { [i \in 1 .. n |-> 1] : n \in 0 .. MaxPts }

\* Rows left by the masking, which the downsampling draws from
MaskedRows(self, w) ==
    IF self.key = "xyzw" THEN Len(Take(w, [i \in 1 .. Len(w) |-> w[i] = 1])) ELSE Len(w)

IdxChoices(self, w) ==
    IF self.obs_mode # "pointcloud" \/ self.preprocessed THEN { <<>> }
    ELSE DownsampleChoices(MaskedRows(self, w), self.n_points)

(***************************************************************************)
(* SpecObs: ExtendedEnv(ManiSkill2_ObsWrapper(simulator)).  envLog holds   *)
(* the calls the simulator receives.                                       *)
(***************************************************************************)
Frames == {"base", "world", "ee", "lidar"}

FloatDtypes == {"f16", "f32", "f64"}

\* Point cloud wrappers over every shape of point cloud
FamilyCounts ==
    { ManiSkill2_ObsWrapper_init(
          Sim("pointcloud", key, seg, goal, "f32", "u8", 0, pre), 0, np, ng, "base", FALSE) :
      key \in {"xyz", "xyzw"}, seg \in BOOLEAN, goal \in {"none", "goal_pos", "goal_pose"},
      pre \in BOOLEAN, np \in 1 .. MaxPts, ng \in -1 .. MaxGoalPts }

\* Point cloud wrappers in every frame
FamilyFrames ==
    { ManiSkill2_ObsWrapper_init(
          Sim("pointcloud", "xyzw", FALSE, "goal_pos", "f32", "u8", 0, FALSE),
          0, 1, ng, frame, FALSE) :
      frame \in Frames, ng \in {-1, 1} }

\* Wrappers in every obs_mode over simulators of either float precision
FamilyModes ==
    { ManiSkill2_ObsWrapper_init(
          Sim("state", "xyz", FALSE, "none", fdt, "u8", 0, FALSE), 0, 1, -1, "base", ign) :
      fdt \in {"f32", "f64"}, ign \in BOOLEAN }
    \cup
    { ManiSkill2_ObsWrapper_init(
          Sim("rgbd", "xyz", FALSE, "none", fdt, rgbdt, 2, FALSE), size, 1, -1, "base", FALSE) :
      fdt \in {"f32", "f64"}, rgbdt \in {"u8", "f32"}, size \in {0, 1, 2} }
    \cup
    { ManiSkill2_ObsWrapper_init(
          Sim("pointcloud", "xyz", TRUE, goal, fdt, "u8", 0, FALSE), 0, 1, ng, "ee", FALSE) :
      fdt \in {"f32", "f64"}, goal \in {"goal_pos", "goal_pose"}, ng \in {-1, 1} }

InitObs ==
    /\ ext = ExtendedEnv_init(FALSE, 1, FALSE)
    /\ obsw \in FamilyCounts \cup FamilyFrames \cup FamilyModes
    /\ alive = TRUE
    /\ envLog = <<>>
    /\ out = NoOut
    /\ rnd = NoRnd
    /\ buf = NoBuf
    /\ bpc = "idle"
    /\ rw = NoRw

\* What the simulator's step returns besides the observation
SimStepReturns == { [reward |-> 1, done |-> d, info |-> DictInfo("absent", "f64")] : d \in BOOLEAN }

SimAction == NdArray(<<2>>, <<1, -1>>)

\* ManiSkill2_ObsWrapper.step: ObservationWrapper.step, then ignore_dones
ManiSkill2_ObsWrapper_step(self, r, obs) ==
    [obs |-> obs, reward |-> r.reward,
     done |-> IF self.ignore_dones THEN FALSE ELSE r.done,
     info |-> r.info]

\* The process ends in exit(0): nothing is returned
Exited(call, arg) ==
    /\ alive' = FALSE
    /\ out' = Outcome(call, arg, "exit", NoRet, NoRet)

\* An exception leaves the call: nothing is returned
Raised(call, arg, o) ==
    /\ alive' = alive
    /\ out' = [Outcome(call, arg, o.err, NoRet, NoRet) EXCEPT !.rows_down = o.rows_down]

\* ExtendedEnv.reset() -> ManiSkill2_ObsWrapper.reset() -> simulator
StackReset ==
    /\ alive
    /\ \E w \in SimClouds(obsw) : \E idx \in IdxChoices(obsw, w) :
         LET o == observation(obsw, 1, w, idx)
         IN  IF o.err = "exit" THEN Exited("reset", NoAction)
             ELSE IF o.err # "none" THEN Raised("reset", NoAction, o)
             ELSE /\ alive' = alive
                  /\ out' = [Outcome("reset", NoAction, "none",
                                     ExtendedEnv_reset(ext, o.obs),
                                     [NoRet EXCEPT !.obs = o.obs])
                             EXCEPT !.rows_down = o.rows_down]
    /\ envLog' = <<LogEntry("reset", NoAction)>>
    /\ UNCHANGED <<rw, ext, obsw, rnd, buf, bpc>>

\* ExtendedEnv.step(action) -> ManiSkill2_ObsWrapper.step(action) -> simulator
StackStep ==
    /\ alive
    /\ \E w \in SimClouds(obsw) : \E idx \in IdxChoices(obsw, w) : \E r \in SimStepReturns :
         LET pa == process_action(ext, SimAction)
             o == observation(obsw, 1, w, idx)
             wr == ManiSkill2_ObsWrapper_step(obsw, r, o.obs)
         IN  /\ pa.err = "none"
             /\ envLog' = <<LogEntry("step", pa.action)>>
             /\ IF o.err = "exit" THEN Exited("step", SimAction)
                ELSE IF o.err # "none" THEN Raised("step", SimAction, o)
                ELSE /\ alive' = alive
                     /\ out' = [Outcome("step", SimAction, "none",
                                        ExtendedEnv_step(ext, wr), wr)
                                EXCEPT !.rows_down = o.rows_down]
    /\ UNCHANGED <<rw, ext, obsw, rnd, buf, bpc>>

\* get_obs(), which ExtendedEnv hands to ManiSkill2_ObsWrapper.get_obs
StackGetObs ==
    /\ alive
    /\ \E w \in SimClouds(obsw) : \E idx \in IdxChoices(obsw, w) :
         LET o == observation(obsw, 1, w, idx)
         IN  IF o.err = "exit" THEN Exited("get_obs", NoAction)
             ELSE IF o.err # "none" THEN Raised("get_obs", NoAction, o)
             ELSE /\ alive' = alive
                  /\ out' = [Outcome("get_obs", NoAction, "none",
                                     [NoRet EXCEPT !.obs = o.obs],
                                     [NoRet EXCEPT !.obs = o.obs])
                             EXCEPT !.rows_down = o.rows_down]
    /\ envLog' = <<LogEntry("get_obs", NoAction)>>
    /\ UNCHANGED <<rw, ext, obsw, rnd, buf, bpc>>

NextObs ==
    \/ StackReset
    \/ StackStep
    \/ StackGetObs

SpecObs == InitObs /\ [][NextObs]_vars

(***************************************************************************)
(* Properties of the ExtendedEnv / ManiSkill2_ObsWrapper stack, under      *)
(* SpecObs.                                                                *)
(***************************************************************************)
Returned(calls) == out.call \in calls /\ out.err = "none"

IsPointcloud == obsw.obs_mode = "pointcloud"

\* C3 as stated: after ExtendedEnv.reset and ExtendedEnv.step every
\* floating-point field of the returned observation (and of the info of
\* step) is float32, the transformed observations of image mode and point
\* cloud mode included.
C3_AllFloatsAreFloat32 ==
    Returned({"reset", "step"}) =>
        /\ \A k \in DOMAIN out.ret.obs.dt :
              out.ret.obs.dt[k] \in FloatDtypes => out.ret.obs.dt[k] = "f32"
        /\ out.ret.info.dt \in FloatDtypes => out.ret.info.dt = "f32"

\* C3, amended: after ExtendedEnv.reset and ExtendedEnv.step no field of the
\* returned observation (or of the info of step) is float64: every float64
\* field has become float32 and every other field keeps its dtype, so the
\* depth image of image mode, which the transform casts to float16, stays
\* float16.
C3_Float64BecomesFloat32 ==
    Returned({"reset", "step"}) =>
        /\ DOMAIN out.ret.obs.dt = DOMAIN out.env_ret.obs.dt
        /\ \A k \in DOMAIN out.ret.obs.dt :
              /\ out.ret.obs.dt[k] # "f64"
              /\ out.env_ret.obs.dt[k] = "f64" => out.ret.obs.dt[k] = "f32"
              /\ out.env_ret.obs.dt[k] # "f64" => out.ret.obs.dt[k] = out.env_ret.obs.dt[k]
        /\ out.ret.info.dt # "f64"
        /\ obsw.obs_mode = "rgbd" => out.ret.obs.dt["depth"] = "f16"

C3_Witness ==
    /\ Returned({"step"})
    /\ obsw.obs_mode = "rgbd"
    /\ obsw.fdt = "f64"
    /\ out.env_ret.obs.dt["state"] = "f64"
    /\ out.ret.obs.dt["state"] = "f32"
    /\ out.ret.obs.dt["depth"] = "f16"
    /\ out.env_ret.info.dt = "f64"

\* C4: in point cloud mode the rows of 'xyz' in the output of observation
\* are the rows left by masking and downsampling plus n_goal_points when
\* n_goal_points > 0, and plus none when n_goal_points <= 0.
C4_PointCount ==
    (IsPointcloud /\ Returned({"reset", "step", "get_obs"})) =>
        Len(out.ret.obs.pts["xyz"]) =
            out.rows_down + (IF obsw.n_goal_points > 0 THEN obsw.n_goal_points ELSE 0)

C4_Witness ==
    /\ IsPointcloud
    /\ Returned({"get_obs"})
    /\ obsw.key = "xyzw"
    /\ ~obsw.preprocessed
    /\ obsw.n_goal_points = 2
    /\ out.rows_down = 1
    /\ Len(out.ret.obs.pts["xyz"]) = 3

RecognizedFrame == obsw.obs_frame \in {"base", "world", "ee"}

\* The only exception the point cloud branch raises on the modelled inputs:
\* goal points asked for without a goal in the observation
GoalAssertion == obsw.n_goal_points > 0 /\ obsw.goal = "none"

C10_SameRows ==
    (IsPointcloud /\ Returned({"reset", "step", "get_obs"})) =>
        \A k1, k2 \in DOMAIN out.ret.obs.pts :
            Len(out.ret.obs.pts[k1]) = Len(out.ret.obs.pts[k2])

(***************************************************************************)
(* BufferAugmentedEnv.  The buffers are shared memory: slot i is           *)
(* buffers[i-1], written by the worker and read by the main process.  A    *)
(* slot holds the part of an env result it was last assigned, tagged with  *)
(* the number of the call that produced it.                                *)
(***************************************************************************)
Val(call, part) == [call |-> call, part |-> part]

EmptySlot == Val(0, "empty")

\* Faulty variant: reset_buffer wraps buffers[1]
BufferAugmentedEnv_init_second(nbuffers, env_vis) ==
    [NoBuf EXCEPT !.n = nbuffers,
                  !.env_vis = env_vis,
                  !.reset_buffer = 2,
                  !.step_buffer = <<1, 2, 3, 4>>,
                  !.vis_img_buffer = IF nbuffers = 5 THEN 5 ELSE 0,
                  !.slots = [i \in 1 .. nbuffers |-> EmptySlot],
                  !.before = [i \in 1 .. nbuffers |-> EmptySlot],
                  !.seen = [i \in 1 .. nbuffers |-> EmptySlot]]

\* BufferAugmentedEnv.__init__: reset_buffer is buffers[0], step_buffer is
\* buffers[:4], and vis_img_buffer is set only when there are 5 buffers
\* (0: the attribute is not set).  env_vis is what the wrapped env answers
\* for the attribute vis_img_buffer.
BufferAugmentedEnv_init(nbuffers, env_vis) ==
    [NoBuf EXCEPT !.n = nbuffers,
                  !.env_vis = env_vis,
                  !.reset_buffer = 1,
                  !.step_buffer = <<1, 2, 3, 4>>,
                  !.vis_img_buffer = IF nbuffers = 5 THEN 5 ELSE 0,
                  !.slots = [i \in 1 .. nbuffers |-> EmptySlot],
                  !.before = [i \in 1 .. nbuffers |-> EmptySlot],
                  !.seen = [i \in 1 .. nbuffers |-> EmptySlot]]

InitBuf ==
    /\ ext = NoExt
    /\ obsw = NoObsw
    /\ alive = TRUE
    /\ envLog = <<>>
    /\ out = NoOut
    /\ rnd = NoRnd
    /\ buf \in { BufferAugmentedEnv_init(n, v) : n \in {4, 5}, v \in {"missing", "None"} }
    /\ bpc = "idle"
    /\ rw = NoRw

\* A call starts: it gets the next number, and the slots as they are now are
\* remembered
BeginCall(kind) ==
    [buf EXCEPT !.hist = Append(@, kind), !.before = buf.slots,
                !.rendered = "none", !.err = "none"]

CanCall == bpc = "idle" /\ Len(buf.hist) < MaxCalls

\* BufferAugmentedEnv.reset: reset_buffer.assign_all(self.env.reset())
BufReset ==
    /\ CanCall
    /\ LET b == BeginCall("reset")
       IN  buf' = [b EXCEPT !.slots[b.reset_buffer] = Val(Len(b.hist), "obs")]
    /\ UNCHANGED <<rw, ext, obsw, alive, envLog, out, rnd, bpc>>

\* BufferAugmentedEnv.step, first line: alls = self.env.step(...)
BufStepCall ==
    /\ CanCall
    /\ LET b == BeginCall("step")
           c == Len(b.hist)
       IN  buf' = [b EXCEPT !.pending =
                       <<Val(c, "obs"), Val(c, "reward"), Val(c, "done"), Val(c, "info")>>]
    /\ bpc' = "assign"
    /\ UNCHANGED <<rw, ext, obsw, alive, envLog, out, rnd>>

\* GDict.assign_all of a list: one element after the other
assign_next(b) ==
    LET i == Len(b.step_buffer) - Len(b.pending) + 1
    IN  [b EXCEPT !.slots[b.step_buffer[i]] = Head(b.pending), !.pending = Tail(@)]

\* BufferAugmentedEnv.step, second line: self.step_buffer.assign_all(alls)
BufStepAssign ==
    /\ bpc = "assign"
    /\ buf' = assign_next(buf)
    /\ bpc' = IF Len(buf.pending) = 1 THEN "idle" ELSE "assign"
    /\ UNCHANGED <<rw, ext, obsw, alive, envLog, out, rnd>>

\* self.vis_img_buffer as the interpreter resolves it: the instance
\* attribute when __init__ set it, else ExtendedWrapper.__getattr__ asks the
\* wrapped env
LookupVis(b) ==
    IF b.vis_img_buffer # 0 THEN "buffer"
    ELSE IF b.env_vis = "missing" THEN "AttributeError"
    ELSE "None"

\* BufferAugmentedEnv.render; ret is what self.env.render returned
BufRender(ret) ==
    /\ CanCall
    /\ LET b == [BeginCall("render") EXCEPT !.rendered = ret]
           v == LookupVis(b)
       IN  buf' = IF ret = "None" THEN b
                  ELSE IF v = "AttributeError" THEN [b EXCEPT !.err = "AttributeError"]
                  ELSE IF v = "None" THEN [b EXCEPT !.err = "AssertionError"]
                  ELSE [b EXCEPT !.slots[b.vis_img_buffer] = Val(Len(b.hist), "img")]
    /\ UNCHANGED <<rw, ext, obsw, alive, envLog, out, rnd, bpc>>

\* The main process reads the four step slots between two calls of the
\* worker
BufRead ==
    /\ bpc = "idle"
    /\ buf.seen # buf.slots
    /\ buf' = [buf EXCEPT !.seen = buf.slots]
    /\ UNCHANGED <<rw, ext, obsw, alive, envLog, out, rnd, bpc>>

NextBuf ==
    \/ BufReset
    \/ BufStepCall
    \/ BufStepAssign
    \/ \E ret \in {"None", "img"} : BufRender(ret)
    \/ BufRead

SpecBuf == InitBuf /\ [][NextBuf]_vars

(***************************************************************************)
(* Properties of BufferAugmentedEnv, under SpecBuf.                        *)
(***************************************************************************)
LastCall == IF buf.hist = <<>> THEN "none" ELSE buf.hist[Len(buf.hist)]

\* The four step slots hold parts of one step, or the observation of a later
\* reset with the reward, done and info of one step (or of none yet)
Unmixed(slots) ==
    /\ slots[2].call = slots[3].call /\ slots[3].call = slots[4].call
    /\ slots[2].part \in {"empty", "reward"}
    /\ slots[3].part \in {"empty", "done"}
    /\ slots[4].part \in {"empty", "info"}
    /\ slots[1].part \in {"empty", "obs"}
    /\ slots[1].call >= slots[2].call
    /\ slots[1].call # slots[2].call => buf.hist[slots[1].call] = "reset"

\* C7: between calls, once a step has completed the four step slots hold
\* that step's observation, reward, done and info; once a reset has
\* completed the first slot holds its observation and the other slots are
\* as they were; so what the main process reads between calls never mixes
\* the results of two steps.
C7_BufferTransfer ==
    bpc = "idle" =>
        LET c == Len(buf.hist)
        IN  /\ LastCall = "step" =>
                  /\ buf.slots[1] = Val(c, "obs")
                  /\ buf.slots[2] = Val(c, "reward")
                  /\ buf.slots[3] = Val(c, "done")
                  /\ buf.slots[4] = Val(c, "info")
                  /\ buf.n = 5 => buf.slots[5] = buf.before[5]
            /\ LastCall = "reset" =>
                  /\ buf.slots[1] = Val(c, "obs")
                  /\ \A i \in 2 .. buf.n : buf.slots[i] = buf.before[i]
            /\ Unmixed(buf.slots)
            /\ Unmixed(buf.seen)

C7_Witness ==
    /\ bpc = "idle"
    /\ buf.hist = <<"step", "reset", "step">>
    /\ buf.before = <<Val(2, "obs"), Val(1, "reward"), Val(1, "done"), Val(1, "info")>>
    /\ buf.seen = buf.before
    /\ buf.slots[1] = Val(3, "obs")
    /\ buf.slots[4] = Val(3, "info")

\* C8 as stated: when render returns a value and the wrapper was built
\* without a fifth buffer, the call fails with the assertion "You need to
\* provide vis_img_buffer!" and no buffer is written; with a fifth buffer the
\* value is written into it; when render returns None nothing is written.
C8_RenderNeedsVisBuffer ==
    LastCall = "render" =>
        IF buf.rendered = "None"
        THEN buf.err = "none" /\ buf.slots = buf.before
        ELSE IF buf.n = 5
             THEN /\ buf.err = "none"
                  /\ buf.slots = [buf.before EXCEPT ![5] = Val(Len(buf.hist), "img")]
             ELSE buf.err = "AssertionError" /\ buf.slots = buf.before

(***************************************************************************)
(* RenderInfoWrapper around an arbitrary gym environment.                  *)
(*                                                                         *)
(* rw holds the wrapper's one field (has_info: whether _info_for_render is *)
(* set, info_for_render: the dict it refers to) and, to state properties,  *)
(* the number of reset and step calls made, the number of resets (the      *)
(* episode), the kind of the last call, what the last step returned, and   *)
(* what the last render returned while no reset or step has followed it.   *)
(***************************************************************************)

\* What the wrapped env's step returns: a reward, and an info dict that the
\* env made during this step, which may have a 'reward' entry of its own
RwEnvStepReturns(id, ep) ==
    { [reward |-> r, info |-> InfoDict(id, ep, FALSE, 0)] : r \in 0 .. MaxReward }
    \cup
    { [reward |-> r, info |-> InfoDict(id, ep, TRUE, e)] :
          r \in 0 .. MaxReward, e \in 0 .. MaxReward }

\* What the wrapped env's render returns, by mode and by the calls it has
\* received
EnvImg(mode, calls) == <<"img", mode, calls>>

RenderModes == {"rgb_array", "cameras", "human"}

\* RenderInfoWrapper.step: info['reward'] = rew; self._info_for_render = info
RenderInfoWrapper_step(self, ret) ==
    LET info == [ret.info EXCEPT !.has_reward = TRUE, !.reward = ret.reward]
    IN  [self EXCEPT !.has_info = TRUE, !.info_for_render = info,
                     !.ret_reward = ret.reward, !.ret_info = info]

\* Faulty variant: reset leaves the stored info as it is
RenderInfoWrapper_reset_keep(self) ==
    [self EXCEPT !.has_info = TRUE]

\* RenderInfoWrapper.reset: self._info_for_render = {}
RenderInfoWrapper_reset(self) ==
    [self EXCEPT !.has_info = TRUE, !.info_for_render = EmptyDict]

\* The call put_info_on_image(img, info, extras=None, overlay=True), by its
\* arguments
put_info_on_image(mode, img, info) ==
    [mode |-> mode, err |-> "none", img |-> img, overlay |-> TRUE, info |-> info]

\* RenderInfoWrapper.render: the overlay in the two image modes, the wrapped
\* env's result in any other; self._info_for_render before the first reset or
\* step is looked up in the wrapped env by ExtendedWrapper.__getattr__, which
\* does not have it
RenderInfoWrapper_render(self, mode, img) ==
    IF mode = "rgb_array" \/ mode = "cameras"
    THEN IF self.has_info
         THEN put_info_on_image(mode, img, self.info_for_render)
         ELSE [NoRender EXCEPT !.mode = mode, !.err = "AttributeError"]
    ELSE [NoRender EXCEPT !.mode = mode, !.img = img]

InitRw ==
    /\ ext = NoExt
    /\ obsw = NoObsw
    /\ alive = TRUE
    /\ envLog = <<>>
    /\ out = NoOut
    /\ rnd = NoRnd
    /\ buf = NoBuf
    /\ bpc = "idle"
    /\ rw = NoRw

\* wrapper.reset()
RwReset ==
    /\ rw.calls < MaxRwCalls
    /\ rw' = [RenderInfoWrapper_reset(rw) EXCEPT !.calls = @ + 1, !.ep = @ + 1,
                                                 !.last = "reset",
                                                 !.rendered = NoRender]
    /\ UNCHANGED <<ext, obsw, alive, envLog, out, rnd, buf, bpc>>

\* wrapper.step(action); ret is what the wrapped env's step returned
RwStep(ret) ==
    /\ rw.calls < MaxRwCalls
    /\ rw' = [RenderInfoWrapper_step(rw, ret) EXCEPT !.calls = @ + 1,
                                                     !.last = "step",
                                                     !.rendered = NoRender]
    /\ UNCHANGED <<ext, obsw, alive, envLog, out, rnd, buf, bpc>>

\* wrapper.render(mode)
RwRender(mode) ==
    /\ rw.rendered.mode # mode
    /\ rw' = [rw EXCEPT !.rendered =
                 RenderInfoWrapper_render(rw, mode, EnvImg(mode, rw.calls))]
    /\ UNCHANGED <<ext, obsw, alive, envLog, out, rnd, buf, bpc>>

NextRw ==
    \/ RwReset
    \/ \E ret \in RwEnvStepReturns(rw.calls + 1, rw.ep) : RwStep(ret)
    \/ \E mode \in RenderModes : RwRender(mode)

SpecRw == InitRw /\ [][NextRw]_vars

(***************************************************************************)
(* Properties of RenderInfoWrapper, under SpecRw.                          *)
(***************************************************************************)
\* A render call has just returned, after at least one reset or step
RwRendered == rw.rendered.mode # "none" /\ rw.calls >= 1

\* C11: after at least one reset or step, render in 'rgb_array' or 'cameras'
\* mode overlays the empty info if the last call was reset, and otherwise the
\* info the last step returned, whose 'reward' entry is the reward that step
\* returned; info of an earlier episode is never overlaid after a reset; in
\* any other mode render returns the wrapped env's result without an
\* overlay; and a render call does not change the stored info.
C11_RenderInfo ==
    /\ [](RwRendered =>
            LET r == rw.rendered
            IN  /\ r.err = "none"
                /\ r.img = EnvImg(r.mode, rw.calls)
                /\ IF r.mode \in {"rgb_array", "cameras"}
                   THEN /\ r.overlay
                        /\ rw.last = "reset" => r.info = EmptyDict
                        /\ rw.last = "step" =>
                              /\ r.info = rw.ret_info
                              /\ r.info.id = rw.calls
                              /\ r.info.has_reward
                              /\ r.info.reward = rw.ret_reward
                        /\ r.info # EmptyDict => r.info.ep = rw.ep
                   ELSE ~r.overlay)
    /\ [][rw'.rendered.mode # "none" =>
              /\ rw'.has_info = rw.has_info
              /\ rw'.info_for_render = rw.info_for_render
              /\ rw'.calls = rw.calls]_vars

\* An overlay rendered after a reset and steps, the last call being a step,
\* shows that step's info with that step's reward
C11_Witness ==
    /\ rw.rendered.mode = "cameras"
    /\ rw.rendered.overlay
    /\ rw.last = "step"
    /\ rw.calls = MaxRwCalls
    /\ rw.ep = 1
    /\ rw.ret_reward = MaxReward
    /\ rw.rendered.info = InfoDict(MaxRwCalls, 1, TRUE, MaxReward)

=============================================================================
